---- MODULE Spec2Model ----
(***************************************************************************)
(* A model of flavio/statistics/probability.py: the probability            *)
(* distribution classes, their get_central / get_random / logpdf queries   *)
(* and combine_distributions.                                              *)
(*                                                                         *)
(* Real quantities are fixed-point integers in thousandths (1.0 is 1000),  *)
(* so math.sqrt rounds as a floating-point square root does.  A central    *)
(* value keeps its Python type, because combine_distributions tests it     *)
(* with isinstance(central_value, float).  Values of transcendental        *)
(* functions (log, norm.logpdf) are kept as symbolic terms.                *)
(***************************************************************************)
EXTENDS Integers, Sequences, FiniteSets, TLC

VARIABLES heap, ret

vars == <<heap, ret>>

\* ------------------------------------------------------------------ bounds

\* Longest list handed to combine_distributions.
MaxLen == 3
\* Most instances alive while every query is exercised.
MaxInst == 2
\* Largest size argument of get_random.
MaxSize == 2
\* Longest tabulated grid of a NumericalDistribution.
MaxGrid == 3
\* Largest tabulated density sample y[i].
MaxY == 2

\* 1.0 in fixed point.
One == 10 * 100

\* --------------------------------------------------------------- numerics

Float(v) == [ty |-> "float", v |-> v]
PyInt(v) == [ty |-> "int", v |-> v]

\* Python's == on numbers compares the value, whatever the type (3 == 3.0).
PyEq(a, b) == a.v = b.v

IsFloat(c) == c.ty = "float"

\* a value is tagged, its payload always a tuple
Num(v) == [t |-> "num", v |-> <<v>>]
NegInf == [t |-> "-inf", v |-> <<>>]
NaN == [t |-> "nan", v |-> <<>>]
\* a symbolic value of a transcendental expression
Sym(f, a) == [t |-> f, v |-> a]

Abs(a) == IF a < 0 THEN -a ELSE a
Sign(a) == IF a < 0 THEN -1 ELSE IF a = 0 THEN 0 ELSE 1

RECURSIVE IsqrtSearch(_, _, _)
IsqrtSearch(n, lo, hi) ==
  IF lo >= hi THEN lo
  ELSE LET mid == (lo + hi + 1) \div 2
       IN IF mid * mid <= n THEN IsqrtSearch(n, mid, hi)
          ELSE IsqrtSearch(n, lo, mid - 1)

\* math.sqrt of a squared fixed-point quantity, rounded down to a thousandth
MathSqrt(n) == IsqrtSearch(n, 0, IF n < 46340 THEN n ELSE 46340)

RECURSIVE SumSeq(_)
SumSeq(s) == IF s = <<>> THEN 0 ELSE Head(s) + SumSeq(Tail(s))

\* the outcome of a call: a returned value or a raised exception
Ok(v) == [raised |-> "None", msg |-> "", value |-> v]
Raise(e, m) == [raised |-> e, msg |-> m, value |-> NaN]

\* ---------------------------------------------------------- the instances

UniformDistribution(central_value, half_range) ==
  [kind |-> "Uniform", central_value |-> central_value,
   half_range |-> half_range,
   range |-> <<central_value.v - half_range, central_value.v + half_range>>]

DeltaDistribution(central_value) ==
  [kind |-> "Delta", central_value |-> central_value]

NormalDistribution(central_value, standard_deviation) ==
  [kind |-> "Normal", central_value |-> central_value,
   standard_deviation |-> standard_deviation]

\* __init__ raises before any attribute but central_value is set
AsymmetricNormalValid(right_deviation, left_deviation) ==
  ~(right_deviation < 0 \/ left_deviation < 0)

AsymmetricNormalDistribution(central_value, right_deviation, left_deviation) ==
  [kind |-> "AsymmetricNormal", central_value |-> central_value,
   right_deviation |-> right_deviation, left_deviation |-> left_deviation]

HalfNormalDistribution(central_value, standard_deviation) ==
  [kind |-> "HalfNormal", central_value |-> central_value,
   standard_deviation |-> standard_deviation]

\* scipy.stats.norm.ppf at a probability given in thousandths; the quantiles
\* the model draws on, in thousandths
NormPpf(p) ==
  CASE p = 500 -> 0
    [] p = 950 -> 1645
    [] p = 975 -> 1960

GaussianUpperLimitValid(confidence_level) ==
  ~(confidence_level > One \/ confidence_level < 0)

get_standard_deviation(limit, confidence_level) ==
  (limit * NormPpf(500 + confidence_level \div 2)) \div One

GaussianUpperLimit(limit, confidence_level) ==
  [kind |-> "GaussianUpperLimit", central_value |-> PyInt(0),
   standard_deviation |-> get_standard_deviation(limit, confidence_level),
   limit |-> limit, confidence_level |-> confidence_level]

\* np.argmax: the first index holding the maximum
ArgMax(y) ==
  CHOOSE i \in DOMAIN y :
    /\ \A j \in DOMAIN y : y[j] <= y[i]
    /\ \A j \in 1..(i - 1) : y[j] < y[i]

\* np.cumsum
CumSum(y) == [i \in DOMAIN y |-> SumSeq(SubSeq(y, 1, i))]

\* _y_norm = y/sum(y)*_x_range, each entry the exact fraction n/d
YNorm(x, y) ==
  LET _x_range == x[Len(x)] - x[1]
  IN [i \in DOMAIN y |-> [n |-> y[i] * _x_range, d |-> SumSeq(y)]]

\* np.cumsum(_y_norm)/_x_range: numerators over the one denominator CdfDen
CdfDen(x, y) == SumSeq(y) * (x[Len(x)] - x[1])

CdfRaw(x, y) ==
  LET yn == YNorm(x, y)
  IN CumSum([i \in DOMAIN yn |-> yn[i].n])

\* the table with _cdf[0] = 0. left out
CdfClampedLastOnly(x, y) ==
  [i \in DOMAIN y |-> IF i = Len(y) THEN CdfDen(x, y) ELSE CdfRaw(x, y)[i]]

\* _cdf[0] = 0. ; _cdf[-1] = 1.
CdfClamped(x, y) ==
  [i \in DOMAIN y |->
     IF i = Len(y) THEN CdfDen(x, y)
     ELSE IF i = 1 THEN 0
     ELSE CdfRaw(x, y)[i]]

\* np.log of a fraction of thousandths
NpLog(q) == IF q.n = 0 THEN NegInf ELSE Sym("log", <<q.n, q.d>>)

None == [ty |-> "None", v |-> 0]

NumericalDistribution(x, y, central_value) ==
  [kind |-> "Numerical",
   central_value |-> IF central_value = None THEN Float(x[ArgMax(y)])
                     ELSE central_value,
   logpdf_interp |-> [x |-> x,
                      y |-> [i \in DOMAIN y |-> NpLog(YNorm(x, y)[i])]],
   ppf_interp |-> [x |-> CdfClamped(x, y), den |-> CdfDen(x, y), y |-> x]]

\* ------------------------------------------------------------ get_central

get_central(d) == d.central_value

\* -------------------------------------------------------------- interp1d
(* scipy.interpolate.interp1d(x, y) of kind linear, called at xn.  The     *)
(* abscissas t.x are numerators over the denominator den, and xn is the   *)
(* fraction xn.n/xn.d.  bounds_error is left at its default, so a call     *)
(* outside [x[0], x[-1]] raises whatever fill_value was given.  Inside,    *)
(* the library evaluates either with searchsorted (InterpSearch) or with  *)
(* numpy.interp (InterpNp), depending on its version: the two differ only  *)
(* where an abscissa is repeated.                                          *)

Below(tx, den, xn) == xn.n * den < tx[1] * xn.d
Above(tx, den, xn) == xn.n * den > tx[Len(tx)] * xn.d

Clip(i, lo, hi) == IF i < lo THEN lo ELSE IF i > hi THEN hi ELSE i

\* x_lo + (x_hi - x_lo)*(xn - c_lo)/(c_hi - c_lo), all numbers
Lerp(clo, chi, den, ylo, yhi, xn) ==
  ylo + ((yhi - ylo) * (xn.n * den - clo * xn.d)) \div ((chi - clo) * xn.d)

\* _call_linear: lo and hi around searchsorted(x, x_new), clipped
InterpSearch(tx, den, ty, xn) ==
  LET idx == Cardinality({i \in DOMAIN tx : tx[i] * xn.d < xn.n * den})
      hi == Clip(idx, 1, Len(tx) - 1) + 1
      lo == hi - 1
  IN IF tx[hi] = tx[lo]
     THEN NaN  \* slope = +-inf, times x_new - x_lo = 0
     ELSE Num(Lerp(tx[lo], tx[hi], den, ty[lo], ty[hi], xn))

\* numpy.interp: j the last index with x[j] <= x_new
InterpNp(tx, den, ty, xn) ==
  LET j == Cardinality({i \in DOMAIN tx : tx[i] * xn.d <= xn.n * den})
  IN IF j = Len(tx) THEN Num(ty[j])
     ELSE IF tx[j] * xn.d = xn.n * den THEN Num(ty[j])
     ELSE Num(Lerp(tx[j], tx[j + 1], den, ty[j], ty[j + 1], xn))

BoundsError(tx, den, xn) ==
  IF Below(tx, den, xn)
  THEN Raise("ValueError", "A value in x_new is below the interpolation range.")
  ELSE Raise("ValueError", "A value in x_new is above the interpolation range.")

\* self.ppf_interp(r) for one r: what the call may produce
PpfInterp(d, r) ==
  LET t == d.ppf_interp
  IN IF Below(t.x, t.den, r) \/ Above(t.x, t.den, r)
     THEN {BoundsError(t.x, t.den, r)}
     ELSE {Ok(InterpSearch(t.x, t.den, t.y, r)), Ok(InterpNp(t.x, t.den, t.y, r))}

\* linear interpolation between two entries of the log table, at a knot or
\* strictly between two knots, as _call_linear computes it
LogLerpSearch(lo, hi, atLo, atHi, where) ==
  CASE lo.t = "log" /\ hi.t = "log" ->
         IF atLo THEN lo ELSE IF atHi THEN hi ELSE Sym("lerp", where)
    [] lo.t = "log" /\ hi.t = "-inf" -> IF atLo THEN NaN ELSE NegInf
    [] OTHER -> NaN

\* the same, as numpy.interp computes it
LogLerpNp(lo, hi, atLo, where) ==
  IF atLo THEN lo
  ELSE IF lo.t = "log" /\ hi.t = "log" THEN Sym("lerp", where)
  ELSE NegInf

\* self.logpdf_interp(x) for a number x
LogpdfInterp(d, x) ==
  LET t == d.logpdf_interp
      xn == [n |-> x, d |-> 1]
      n == Len(t.x)
      idx == Cardinality({i \in 1..n : t.x[i] < x})
      hi == Clip(idx, 1, n - 1) + 1
      j == Cardinality({i \in 1..n : t.x[i] <= x})
  IN IF Below(t.x, 1, xn) \/ Above(t.x, 1, xn)
     THEN {BoundsError(t.x, 1, xn)}
     ELSE {Ok(LogLerpSearch(t.y[hi - 1], t.y[hi], t.x[hi - 1] = x, t.x[hi] = x,
                            <<hi - 1, x>>)),
           Ok(IF j = n THEN t.y[n]
              ELSE LogLerpNp(t.y[j], t.y[j + 1], t.x[j] = x, <<j, x>>))}

\* ------------------------------------------------------------- get_random
(* A size is <<>> for None and <<n>> for the integer n; a result carries   *)
(* its numpy shape, <<>> for a scalar.  A random draw is a choice among    *)
(* two values of the distribution's support.                               *)

Drawn(cands, size) ==
  IF size = <<>>
  THEN {Ok([shape |-> <<>>, samples |-> <<c>>]) : c \in cands}
  ELSE {Ok([shape |-> size, samples |-> s]) : s \in [1..size[1] -> cands]}

\* np.random.uniform() in [0, 1), as fractions
UnitDraws == {[n |-> 0, d |-> 1], [n |-> 1, d |-> 2]}

UniformGetRandom(d, size) ==
  Drawn({Num(d.range[1]), Num(d.central_value.v)}, size)

DeltaGetRandom(d, size) ==
  Drawn({Num(d.central_value.v)}, size)

NormalGetRandom(d, size) ==
  Drawn({Num(d.central_value.v - d.standard_deviation),
         Num(d.central_value.v + d.standard_deviation)}, size)

\* size is never read: one side is drawn, then one magnitude
AsymmetricNormalGetRandom(d, size) ==
  IF d.right_deviation + d.left_deviation = 0
  THEN {Raise("ZeroDivisionError", "division by zero")}
  ELSE Drawn({Num(d.central_value.v - d.left_deviation)}
             \cup (IF d.right_deviation > 0
                   THEN {Num(d.central_value.v + d.right_deviation)}
                   ELSE {}), <<>>)

HalfNormalGetRandom(d, size) ==
  Drawn({Num(d.central_value.v),
         Num(d.central_value.v + d.standard_deviation)}, size)

\* every r goes through the same interp1d call, so through the same
\* evaluation path
NumericalGetRandom(d, size) ==
  LET t == d.ppf_interp
      n == IF size = <<>> THEN 1 ELSE size[1]
      Out(r) == Below(t.x, t.den, r) \/ Above(t.x, t.den, r)
  IN UNION {
       IF \E i \in 1..n : Out(rs[i])
       THEN {BoundsError(t.x, t.den, rs[CHOOSE i \in 1..n : Out(rs[i])])}
       ELSE {Ok([shape |-> size,
                 samples |-> [i \in 1..n |-> InterpSearch(t.x, t.den, t.y, rs[i])]]),
             Ok([shape |-> size,
                 samples |-> [i \in 1..n |-> InterpNp(t.x, t.den, t.y, rs[i])]])}
       : rs \in [1..n -> UnitDraws]}

get_random(d, size) ==
  CASE d.kind = "Uniform" -> UniformGetRandom(d, size)
    [] d.kind = "Delta" -> DeltaGetRandom(d, size)
    [] d.kind = "Normal" -> NormalGetRandom(d, size)
    [] d.kind = "AsymmetricNormal" -> AsymmetricNormalGetRandom(d, size)
    [] d.kind \in {"HalfNormal", "GaussianUpperLimit"} -> HalfNormalGetRandom(d, size)
    [] d.kind = "Numerical" -> NumericalGetRandom(d, size)

\* ----------------------------------------------------------------- logpdf

UniformLogpdf(d, x) ==
  IF x < d.range[1] \/ x >= d.range[2] THEN {Ok(Num(0))}
  ELSE {Ok(Sym("-log", <<2 * d.half_range>>))}

DeltaLogpdf(d, x) ==
  IF x = d.central_value.v THEN {Ok(Num(0))} ELSE {Ok(NegInf)}

\* scipy.stats.norm.logpdf(x, loc, scale): nan for a scale that is not positive
NormLogpdf(x, loc, scale) ==
  IF scale <= 0 THEN NaN ELSE Sym("norm.logpdf", <<x, loc, scale>>)

NormalLogpdf(d, x) ==
  {Ok(NormLogpdf(x, d.central_value.v, d.standard_deviation))}

\* r = 2*p_right/(p_left+p_right) is 2*left/(left+right), and the other side
\* likewise; a zero deviation makes its peak density, and so r, nan
AsymmetricNormalLogpdf(d, x) ==
  IF d.right_deviation = 0 \/ d.left_deviation = 0 THEN {Ok(NaN)}
  ELSE IF x < d.central_value.v
  THEN {Ok(Sym("log+norm.logpdf",
               <<2 * d.left_deviation, d.left_deviation + d.right_deviation,
                 x, d.central_value.v, d.left_deviation>>))}
  ELSE {Ok(Sym("log+norm.logpdf",
               <<2 * d.right_deviation, d.left_deviation + d.right_deviation,
                 x, d.central_value.v, d.right_deviation>>))}

HalfNormalLogpdf(d, x) ==
  IF Sign(d.standard_deviation) * (x - d.central_value.v) < 0 THEN {Ok(NegInf)}
  ELSE IF d.standard_deviation = 0 THEN {Ok(NaN)}
  ELSE {Ok(Sym("log2+norm.logpdf",
               <<x, d.central_value.v, Abs(d.standard_deviation)>>))}

NumericalLogpdf(d, x) == LogpdfInterp(d, x)

logpdf(d, x) ==
  CASE d.kind = "Uniform" -> UniformLogpdf(d, x)
    [] d.kind = "Delta" -> DeltaLogpdf(d, x)
    [] d.kind = "Normal" -> NormalLogpdf(d, x)
    [] d.kind = "AsymmetricNormal" -> AsymmetricNormalLogpdf(d, x)
    [] d.kind \in {"HalfNormal", "GaussianUpperLimit"} -> HalfNormalLogpdf(d, x)
    [] d.kind = "Numerical" -> NumericalLogpdf(d, x)

\* --------------------------------------------------- combine_distributions

UnivariateMsg == "Combination only implemented for univariate distributions"
SameCentralMsg == "All distributions to be combined must have the same central value"
OnlyNormalMsg == "Combination only implemented for normal distributions"

\* the loop with the kind tested before the central value
RECURSIVE CombineLoopKindFirst(_, _, _, _)
CombineLoopKindFirst(pds, central_value, i, gaussians) ==
  IF i > Len(pds)
  THEN LET err_squared ==
             SumSeq([k \in DOMAIN gaussians |->
                       gaussians[k].standard_deviation * gaussians[k].standard_deviation])
       IN Ok([id |-> Len(pds) + 1,
              obj |-> NormalDistribution(central_value, MathSqrt(err_squared))])
  ELSE IF pds[i].kind \notin {"Delta", "Normal"}
  THEN Raise("ValueError", OnlyNormalMsg)
  ELSE IF ~PyEq(pds[i].central_value, central_value)
  THEN Raise("ValueError", SameCentralMsg)
  ELSE IF pds[i].kind = "Delta"
  THEN CombineLoopKindFirst(pds, central_value, i + 1, gaussians)
  ELSE CombineLoopKindFirst(pds, central_value, i + 1, Append(gaussians, pds[i]))

\* the for loop from its i-th element on, gaussians collected so far
RECURSIVE CombineLoop(_, _, _, _)
CombineLoop(pds, central_value, i, gaussians) ==
  IF i > Len(pds)
  THEN LET err_squared ==
             SumSeq([k \in DOMAIN gaussians |->
                       gaussians[k].standard_deviation * gaussians[k].standard_deviation])
       IN Ok([id |-> Len(pds) + 1,
              obj |-> NormalDistribution(central_value, MathSqrt(err_squared))])
  ELSE IF ~PyEq(pds[i].central_value, central_value)
  THEN Raise("ValueError", SameCentralMsg)
  ELSE IF pds[i].kind = "Delta"
  THEN CombineLoop(pds, central_value, i + 1, gaussians)
  ELSE IF pds[i].kind = "Normal"
  THEN CombineLoop(pds, central_value, i + 1, Append(gaussians, pds[i]))
  ELSE Raise("ValueError", OnlyNormalMsg)

\* a combiner that skips the Delta distributions by removing them from the
\* list it was given
combine_distributions_removing(probability_distributions) ==
  [pds |-> SelectSeq(probability_distributions, LAMBDA d : d.kind # "Delta"),
   out |-> IF Len(probability_distributions) = 0
           THEN Raise("IndexError", "list index out of range")
           ELSE IF Len(probability_distributions) = 1
           THEN Ok([id |-> 1, obj |-> probability_distributions[1]])
           ELSE IF ~IsFloat(probability_distributions[1].central_value)
           THEN Raise("AssertionError", UnivariateMsg)
           ELSE CombineLoop(probability_distributions,
                            probability_distributions[1].central_value, 1, <<>>)]

\* a combiner whose loop starts at the second element
combine_distributions_from_second(probability_distributions) ==
  [pds |-> probability_distributions,
   out |-> IF Len(probability_distributions) = 0
           THEN Raise("IndexError", "list index out of range")
           ELSE IF Len(probability_distributions) = 1
           THEN Ok([id |-> 1, obj |-> probability_distributions[1]])
           ELSE IF ~IsFloat(probability_distributions[1].central_value)
           THEN Raise("AssertionError", UnivariateMsg)
           ELSE CombineLoop(probability_distributions,
                            probability_distributions[1].central_value, 2, <<>>)]

\* the call's outcome and the argument list as the call leaves it
combine_distributions(probability_distributions) ==
  [pds |-> probability_distributions,
   out |-> IF Len(probability_distributions) = 1
           THEN Ok([id |-> 1, obj |-> probability_distributions[1]])
           ELSE IF Len(probability_distributions) = 0
           THEN Raise("IndexError", "list index out of range")
           ELSE IF ~IsFloat(probability_distributions[1].central_value)
           THEN Raise("AssertionError", UnivariateMsg)
           ELSE CombineLoop(probability_distributions,
                            probability_distributions[1].central_value, 1, <<>>)]

\* ------------------------------------------------------- the state machine
(* heap holds the instances alive, in the order they were constructed;     *)
(* combine_distributions is called with the list of all of them.  ret is   *)
(* the last call and its outcome.                                          *)

\* arg is <<instance, argument>>, instance 0 when the call has none
Called(op, arg, out) == [op |-> op, arg |-> arg, out |-> out]

\* a constructor that returns: the new instance joins the heap
Constructed(d) ==
  /\ heap' = Append(heap, d)
  /\ ret' = Called("__init__", <<0, <<>>>>, Ok([id |-> Len(heap) + 1, obj |-> d]))

\* a constructor that raises: no instance is made
Rejected(msg) ==
  /\ heap' = heap
  /\ ret' = Called("__init__", <<0, <<>>>>, Raise("ValueError", msg))

CentralValues == {Float(0), Float(3000), PyInt(3000)}
HalfRanges == {1000}
StandardDeviations == {1000, 2000}
\* <<right_deviation, left_deviation>>
Deviations == {<<1000, 500>>, <<0, 0>>, <<-500, 1000>>}
Limits == {1000, 2000}
\* in thousandths; 1100 is out of range
ConfidenceLevels == {900, 1100}
\* where logpdf is asked
Points == {-1000, 0, 3000, 9000}
Sizes == {<<>>} \cup {<<n>> : n \in 1..MaxSize}

\* strictly increasing grids of 2..MaxGrid abscissas and their densities,
\* not all zero
GridPoints == {0, 1000, 2000, 3000, 4000}
Grids ==
  UNION {{x \in [1..n -> GridPoints] : \A i \in 1..(n - 1) : x[i] < x[i + 1]}
         : n \in 2..MaxGrid}
Densities(n) == {y \in [1..n -> 0..MaxY] : SumSeq(y) > 0}

NewUniform(cap, centrals) ==
  /\ Len(heap) < cap
  /\ \E c \in centrals, h \in HalfRanges : Constructed(UniformDistribution(c, h))

NewDelta(cap, centrals) ==
  /\ Len(heap) < cap
  /\ \E c \in centrals : Constructed(DeltaDistribution(c))

NewNormal(cap, centrals) ==
  /\ Len(heap) < cap
  /\ \E c \in centrals, s \in StandardDeviations :
       Constructed(NormalDistribution(c, s))

NewAsymmetricNormal(cap, centrals, devs) ==
  /\ Len(heap) < cap
  /\ \E c \in centrals, rl \in devs :
       IF AsymmetricNormalValid(rl[1], rl[2])
       THEN Constructed(AsymmetricNormalDistribution(c, rl[1], rl[2]))
       ELSE Rejected("Left and right standard deviations must be positive numbers")

NewHalfNormal(cap, centrals, devs) ==
  /\ Len(heap) < cap
  /\ \E c \in centrals, s \in devs : Constructed(HalfNormalDistribution(c, s))

NewGaussianUpperLimit(cap, limits, levels) ==
  /\ Len(heap) < cap
  /\ \E l \in limits, cl \in levels :
       IF GaussianUpperLimitValid(cl)
       THEN Constructed(GaussianUpperLimit(l, cl))
       ELSE Rejected("Confidence level should be between 0 und 1")

\* grids: the <<x, y>> tables on offer
NewNumerical(cap, grids, centrals) ==
  /\ Len(heap) < cap
  /\ \E g \in grids, c \in centrals : Constructed(NumericalDistribution(g[1], g[2], c))

GetCentral ==
  /\ \E i \in DOMAIN heap :
       ret' = Called("get_central", <<i, <<>>>>, Ok(get_central(heap[i])))
  /\ heap' = heap

GetRandom ==
  /\ \E i \in DOMAIN heap, size \in Sizes :
       \E out \in get_random(heap[i], size) :
         ret' = Called("get_random", <<i, size>>, out)
  /\ heap' = heap

Logpdf ==
  /\ \E i \in DOMAIN heap, x \in Points :
       \E out \in logpdf(heap[i], x) :
         ret' = Called("logpdf", <<i, <<x>>>>, out)
  /\ heap' = heap

Combine ==
  LET r == combine_distributions(heap)
  IN /\ heap' = r.pds
     /\ ret' = Called("combine_distributions", <<0, <<>>>>, r.out)

Init ==
  /\ heap = <<>>
  /\ ret = Called("none", <<0, <<>>>>, Ok(NaN))

\* every operation, on a few instances
Next ==
  \/ NewUniform(MaxInst, {Float(3000)})
  \/ NewDelta(MaxInst, {Float(3000), PyInt(3000)})
  \/ NewNormal(MaxInst, {Float(3000)})
  \/ NewAsymmetricNormal(MaxInst, {Float(3000)}, Deviations)
  \/ NewHalfNormal(MaxInst, {Float(3000)}, {1000, -1000})
  \/ NewGaussianUpperLimit(MaxInst, Limits, ConfidenceLevels)
  \/ NewNumerical(MaxInst, {<<(<<0, 3000>>), (<<1, 2>>)>>}, {None})
  \/ GetCentral
  \/ GetRandom
  \/ Logpdf
  \/ Combine

Spec == Init /\ [][Next]_vars

\* combine_distributions on longer lists, of every kind and central value
NextCombine ==
  \/ NewUniform(MaxLen, CentralValues)
  \/ NewDelta(MaxLen, CentralValues)
  \/ NewNormal(MaxLen, CentralValues)
  \/ NewAsymmetricNormal(MaxLen, CentralValues, {<<1000, 500>>})
  \/ NewHalfNormal(MaxLen, CentralValues, {1000})
  \/ NewGaussianUpperLimit(MaxLen, {1000}, {900, 950})
  \/ NewNumerical(MaxLen, {<<(<<0, 3000>>), (<<1, 2>>)>>}, {None, Float(0)})
  \/ Combine

SpecCombine == Init /\ [][NextCombine]_vars

\* one NumericalDistribution from every table, and its queries
NextNumerical ==
  \/ NewNumerical(1, UNION {{<<x, y>> : y \in Densities(Len(x))} : x \in Grids}, {None})
  \/ GetRandom
  \/ Logpdf

SpecNumerical == Init /\ [][NextNumerical]_vars

\* ----------------------------------------------------------------- claims

Combined == ret.op = "combine_distributions" /\ Len(heap) >= 2
Returned == ret.out.raised = "None"
Supported(d) == d.kind \in {"Delta", "Normal"}
SharesCentral(d) == PyEq(d.central_value, heap[1].central_value)
NormalsOf(pds) == SelectSeq(pds, LAMBDA d : d.kind = "Normal")
SumOfSquares(pds) ==
  SumSeq([k \in DOMAIN pds |-> pds[k].standard_deviation * pds[k].standard_deviation])

\* C1: combining two or more Delta or Normal distributions that share the
\* first one's central value returns a new Normal with that central value
\* whose standard deviation squared is the sum of the squared standard
\* deviations of the Normal inputs (to the rounding of the square root).
C1_CombineSumsVariances ==
  (Combined /\ \A i \in DOMAIN heap : Supported(heap[i]) /\ SharesCentral(heap[i]))
    => /\ Returned
       /\ ret.out.value.id = Len(heap) + 1
       /\ ret.out.value.obj.kind = "Normal"
       /\ PyEq(ret.out.value.obj.central_value, heap[1].central_value)
       /\ LET sd == ret.out.value.obj.standard_deviation
              sum == SumOfSquares(NormalsOf(heap))
          IN sd * sd <= sum /\ sum < (sd + 1) * (sd + 1)

\* C2 as claimed: combining two or more distributions of which one, anywhere
\* and of any kind, has a central value different from the first's fails with
\* the inconsistent-input error.
C2_DifferingCentralRaises ==
  (Combined /\ \E i \in DOMAIN heap : ~SharesCentral(heap[i]))
    => ret.out = Raise("ValueError", SameCentralMsg)

FirstDiffering == CHOOSE i \in DOMAIN heap :
  ~SharesCentral(heap[i]) /\ \A j \in 1..(i - 1) : SharesCentral(heap[j])

CombineErrors ==
  {Raise("ValueError", OnlyNormalMsg), Raise("ValueError", SameCentralMsg),
   Raise("AssertionError", UnivariateMsg)}

\* C2, amended: combining two or more distributions of which one has a
\* central value different from the first's never returns a distribution;
\* the failure is the inconsistent-input error exactly when the first central
\* value is a float and every distribution before the first differing one is
\* a Delta or a Normal, and otherwise the assertion on the first central
\* value or the unsupported-operation error.
C2_DifferingCentralFails ==
  (Combined /\ \E i \in DOMAIN heap : ~SharesCentral(heap[i]))
    => /\ ~Returned
       /\ ret.out = Raise("ValueError", SameCentralMsg)
            <=> /\ IsFloat(heap[1].central_value)
                /\ \A j \in 1..(FirstDiffering - 1) : Supported(heap[j])
       /\ ret.out \in CombineErrors

\* C2 witness: a list whose differing central value comes second, before an
\* unsupported kind, is refused as inconsistent
C2_Witness ==
  /\ Combined /\ Len(heap) = 3
  /\ Supported(heap[1]) /\ ~SharesCentral(heap[2])
  /\ ~Supported(heap[3]) /\ SharesCentral(heap[3])
  /\ ret.out = Raise("ValueError", SameCentralMsg)

\* C3 as claimed: combining two or more distributions of which one, anywhere,
\* is neither Delta nor Normal fails with the unsupported-operation error.
C3_UnsupportedKindRaises ==
  (Combined /\ \E i \in DOMAIN heap : ~Supported(heap[i]))
    => ret.out = Raise("ValueError", OnlyNormalMsg)

FirstUnsupported == CHOOSE i \in DOMAIN heap :
  ~Supported(heap[i]) /\ \A j \in 1..(i - 1) : Supported(heap[j])

\* C3, amended: combining two or more distributions of which one is neither
\* Delta nor Normal never returns a distribution; the failure is the
\* unsupported-operation error exactly when the first central value is a
\* float and every distribution up to and including the first unsupported
\* one shares it, and otherwise the assertion on the first central value or
\* the inconsistent-input error.
C3_UnsupportedKindFails ==
  (Combined /\ \E i \in DOMAIN heap : ~Supported(heap[i]))
    => /\ ~Returned
       /\ ret.out = Raise("ValueError", OnlyNormalMsg)
            <=> /\ IsFloat(heap[1].central_value)
                /\ \A j \in 1..FirstUnsupported : SharesCentral(heap[j])
       /\ ret.out \in CombineErrors

\* C3 witness: a list whose unsupported kind comes second, before one whose
\* central value differs, is refused as unsupported
C3_Witness ==
  /\ Combined /\ Len(heap) = 3
  /\ Supported(heap[1]) /\ ~Supported(heap[2]) /\ ~SharesCentral(heap[3])
  /\ ret.out = Raise("ValueError", OnlyNormalMsg)

\* C4: a get_random(size=n) that returns, returns exactly n samples, and a
\* get_random() that returns, a single scalar, for every kind.
C4_GetRandomSize ==
  (ret.op = "get_random" /\ Returned)
    => IF ret.arg[2] = <<>>
       THEN ret.out.value.shape = <<>>
       ELSE Len(ret.out.value.samples) = ret.arg[2][1]

\* C5: logpdf of a NumericalDistribution strictly outside its grid returns
\* minus infinity and does not raise.
C5_LogpdfOutsideIsNegInf ==
  (/\ ret.op = "logpdf"
   /\ heap[ret.arg[1]].kind = "Numerical"
   /\ LET x == heap[ret.arg[1]].logpdf_interp.x
      IN ret.arg[2][1] < x[1] \/ ret.arg[2][1] > x[Len(x)])
    => ret.out = Ok(NegInf)

\* C6: get_central, get_random, logpdf and combine_distributions leave every
\* existing instance, and the list given to combine_distributions, as they
\* were; combine_distributions returns an instance of the list or one new
\* Normal.  No step of any kind changes an instance that exists.
C6_InstancesImmutable ==
  [][/\ \A i \in DOMAIN heap : i \in DOMAIN heap' /\ heap'[i] = heap[i]
     /\ ret'.op \in {"get_central", "get_random", "logpdf", "combine_distributions"}
          => heap' = heap
     /\ (ret'.op = "combine_distributions" /\ ret'.out.raised = "None")
          => \/ /\ ret'.out.value.id \in DOMAIN heap
                /\ ret'.out.value.obj = heap[ret'.out.value.id]
             \/ /\ ret'.out.value.id = Len(heap) + 1
                /\ ret'.out.value.obj.kind = "Normal"]_vars

\* C6 witness: a list holding a Delta has been combined into a new Normal
C6_Witness ==
  /\ Combined /\ Returned
  /\ \E i \in DOMAIN heap : heap[i].kind = "Delta"
  /\ ret.out.value.id = Len(heap) + 1

Zero == [n |-> 0, d |-> 1]
Unity == [n |-> 1, d |-> 1]
Probes == {Zero, [n |-> 1, d |-> 4], [n |-> 1, d |-> 2], [n |-> 3, d |-> 4], Unity}
Before(r, q) == r.n * q.d <= q.n * r.d

NonDecreasing(s) == \A i \in 1..(Len(s) - 1) : s[i] <= s[i + 1]

\* along the probes, the values vals[r] that are numbers never step down
Monotone(vals) ==
  \A r, q \in Probes :
    (Before(r, q) /\ vals[r].t = "num" /\ vals[q].t = "num")
      => vals[r].v[1] <= vals[q].v[1]

C8_UpperLimitSigma ==
  \A i \in DOMAIN heap :
    (heap[i].kind = "GaussianUpperLimit" /\ heap[i].confidence_level = 900
       /\ heap[i].limit > 0)
      => /\ heap[i].standard_deviation < heap[i].limit
         /\ heap[i].standard_deviation > 0
         /\ Abs((heap[i].limit * One) \div heap[i].standard_deviation
                - NormPpf(950)) <= 1

EvenlySpaced(x) == \A i \in 1..(Len(x) - 1) : x[i + 1] - x[i] = x[2] - x[1]
\* the numerator of a tabulated density, exp of the log table's entry
DensityNum(e) == IF e.t = "log" THEN e.v[1] ELSE 0
DensityDen(tab) == (CHOOSE e \in {tab[i] : i \in DOMAIN tab} : e.t = "log").v[2]

\* C9: on an evenly spaced grid the normalized density integrates to 1: its
\* spacing-weighted sum, in Riemann or in trapezoid form, is 1.
C9_DensityIntegratesToOne ==
  \A i \in DOMAIN heap :
    (heap[i].kind = "Numerical" /\ EvenlySpaced(heap[i].logpdf_interp.x))
      => LET t == heap[i].logpdf_interp
             h == t.x[2] - t.x[1]
             nums == [k \in DOMAIN t.y |-> DensityNum(t.y[k])]
             den == DensityDen(t.y)
         IN \/ SumSeq(nums) * h = den * One * One
            \/ (2 * SumSeq(nums) - nums[1] - nums[Len(nums)]) * h = 2 * den * One * One

\* C10: a Normal returned by combine_distributions for two or more valid
\* inputs (every Normal input with standard_deviation > 0) has
\* standard_deviation > 0, also when every input is a Delta.
C10_CombinedDeviationPositive ==
  (/\ Combined /\ Returned
   /\ \A i \in DOMAIN heap :
        heap[i].kind = "Normal" => heap[i].standard_deviation > 0)
    => ret.out.value.obj.standard_deviation > 0

====
